---- MODULE Spec2Model ----
(***************************************************************************)
(* Model of the token sentiment pipeline of Rancho-rachit/analysis.        *)
(*                                                                         *)
(* The repository holds two revisions of SentimentAnalysisService          *)
(* (src/main.py and src/utils.py) over one set of services                 *)
(* (src/services/database.py, fetch_ohlcv.py, gemini.py).  The variable    *)
(* impl says which revision runs; the services are the same for both.      *)
(*                                                                         *)
(* Python values are encoded as records tagged by their type:              *)
(*   None            [t |-> "None"]                                        *)
(*   str             [t |-> "str",  v |-> sequence of characters]          *)
(*   list            [t |-> "list", v |-> sequence]                        *)
(*   dict            [t |-> "dict", v |-> record]                          *)
(* A message (a reason, an exception text) is a sequence of parts, the     *)
(* concatenation an f-string builds.                                       *)
(***************************************************************************)
EXTENDS Integers, Sequences, FiniteSets, TLC

\* ------------------------------------------------------------------ bounds

\* Longest batch handed to analyze_multiple_tokens.
MaxTokens == 2

\* Most rows the tweet query returns in the model (the code asks for 21).
MaxRows == 5

\* Most entries of the price service's ohlcv_list in the model.
MaxOhlcv == 1

\* Most execute_query calls in a row in the model.
MaxQueries == 3

\* ------------------------------------------------------- program constants

\* analyze_token_sentiment: fetch_recent_tweets(twitter_handle, limit=21)
TWEET_FETCH_LIMIT == 21

\* _create_connection_pool: "pool_size": 5
POOL_SIZE == 5

\* services/constants.py: RESPONSE_THRESHOLD (defined, imported by nothing)
RESPONSE_THRESHOLD == 60

\* for ... in token_data: the number of names each revision unpacks a row into
UnpackWidthMain == 4

UnpackWidthUtils == 6

\* ---------------------------------------------------------- Python values

PyNone == [t |-> "None"]

\* A local name that has not been assigned yet.
PyUnbound == [t |-> "unbound"]

PyStr(chars) == [t |-> "str", v |-> chars]

PyList(xs) == [t |-> "list", v |-> xs]

\* Python truthiness of the values the pipeline tests with `not x`.
Truthy(x) ==
    CASE x.t = "None" -> FALSE
      [] x.t = "str"  -> Len(x.v) > 0
      [] x.t = "list" -> Len(x.v) > 0
      [] x.t = "dict" -> TRUE
      [] OTHER        -> TRUE

UpperChars == <<"A","B","C","D","E","F","G","H","I","J","K","L","M",
                "N","O","P","Q","R","S","T","U","V","W","X","Y","Z">>

LowerChars == <<"a","b","c","d","e","f","g","h","i","j","k","l","m",
                "n","o","p","q","r","s","t","u","v","w","x","y","z">>

Whitespace == {" ", "\n", "\t", "\r"}

\* str.lower() on one character.
LowerChar(c) ==
    IF \E i \in 1..Len(UpperChars) : UpperChars[i] = c
    THEN LowerChars[CHOOSE i \in 1..Len(UpperChars) : UpperChars[i] = c]
    ELSE c

\* str.lower()
Lower(s) == [i \in 1..Len(s) |-> LowerChar(s[i])]

\* str.strip(): drops leading and trailing whitespace.
Strip(s) ==
    LET keep == {i \in 1..Len(s) : s[i] \notin Whitespace}
    IN  IF keep = {} THEN <<>>
        ELSE LET lo == CHOOSE i \in keep : \A j \in keep : i <= j
                 hi == CHOOSE i \in keep : \A j \in keep : j <= i
             IN  SubSeq(s, lo, hi)

\* The decimal digits of a natural number, as str(n) writes them.
RECURSIVE Digits(_)
Digits(n) ==
    LET d == <<"0","1","2","3","4","5","6","7","8","9">>
    IN  IF n < 10 THEN <<d[n + 1]>> ELSE Digits(n \div 10) \o <<d[(n % 10) + 1]>>

\* An exception: its class and str(e).
Exc(cls, msg) == [cls |-> cls, msg |-> msg]

NoExc == [cls |-> "", msg |-> <<>>]

\* a, b = value: the two-target unpacking of utils.py's
\* `decision, reason = self.sentiment_analyzer.analyze_sentiment(...)`.
Unpack2(value) ==
    CASE value.t = "None" ->
           [ok |-> FALSE, a |-> PyNone, b |-> PyNone,
            exc |-> Exc("TypeError", <<"cannot unpack non-iterable NoneType object">>)]
      [] Len(value.v) > 2 ->
           [ok |-> FALSE, a |-> PyNone, b |-> PyNone,
            exc |-> Exc("ValueError", <<"too many values to unpack (expected 2)">>)]
      [] Len(value.v) < 2 ->
           [ok |-> FALSE, a |-> PyNone, b |-> PyNone,
            exc |-> Exc("ValueError",
                        <<"not enough values to unpack (expected 2, got ">>
                            \o Digits(Len(value.v)) \o <<")">>)]
      [] OTHER ->
           [ok |-> TRUE,
            a |-> IF value.t = "str" THEN PyStr(<<value.v[1]>>) ELSE value.v[1],
            b |-> IF value.t = "str" THEN PyStr(<<value.v[2]>>) ELSE value.v[2],
            exc |-> NoExc]

\* ------------------------------------------------------------- date, time

\* datetime.strftime("%Y-%m-%d %H:%M:%S"): the text names the second, the
\* microseconds are not written.
StrftimeSeconds(dt) == [fmt |-> "%Y-%m-%d %H:%M:%S", at |-> dt.sec]

\* datetime.strptime(text, "%Y-%m-%d %H:%M:%S")
StrptimeSeconds(text) == [sec |-> text.at, micro |-> 0]

\* int(datetime.timestamp())
Epoch(dt) == dt.sec

\* datetime.fromtimestamp(ts).strftime("%Y-%m-%d %H:%M"): the text names the
\* minute.
StrftimeMinutes(ts) == [fmt |-> "%Y-%m-%d %H:%M", at |-> ts \div 60]

\* ------------------------------------------------ services/database.py

\* Fractions of a second a stored tweet_create_time may carry.
Micros == {0, 250000}

PyDatetime(sec, micro) == [t |-> "datetime", sec |-> sec, micro |-> micro]

\* One row of twitter.enhanced_tweets as the query selects it:
\* (tweet_id, body, tweet_create_time, author_handle).
TweetRow(id, time, handle) == <<id, "body", time, handle>>

\* The rows of one author, ORDER BY tweet_create_time DESC: n rows, the
\* newest first; micro is the newest row's fraction of a second.
TweetRows(handle, n, micro) ==
    [i \in 1..n |->
        TweetRow(n - i + 1,
                 PyDatetime(n - i + 1, IF i = 1 THEN micro ELSE 0),
                 handle)]

\* What the database can hold for a handle: 0..MaxRows rows, or one row whose
\* tweet_create_time is NULL.
TweetTables(handle) ==
    {TweetRows(handle, n, m) : n \in 0..MaxRows, m \in Micros}
        \cup {<<TweetRow(1, PyNone, handle)>>}

\* How one run of a query can end: the rows it matches, a MySQLError, or
\* another exception raised under execute_query's try.
DbOutcomes(tables) ==
    {[kind |-> "rows", rows |-> r, exc |-> NoExc] : r \in tables}
        \cup {[kind |-> "MySQLError", rows |-> <<>>,
               exc |-> Exc("MySQLError", <<"Lost connection to MySQL server">>)],
              [kind |-> "other", rows |-> <<>>,
               exc |-> Exc("RuntimeError", <<"cursor failure">>)]}

\* LIMIT %s of both queries.
SqlLimit(rows, limit) ==
    SubSeq(rows, 1, IF Len(rows) < limit THEN Len(rows) ELSE limit)

\* DatabaseService.execute_query: the rows, None after a MySQLError; any
\* other exception leaves the method (the finally block closes cursor and
\* connection either way).
ExecuteQuery(db, limit) ==
    CASE db.kind = "rows" ->
           [raised |-> FALSE, value |-> PyList(SqlLimit(db.rows, limit)), exc |-> NoExc]
      [] db.kind = "MySQLError" ->
           [raised |-> FALSE, value |-> PyNone, exc |-> NoExc]
      [] OTHER ->
           [raised |-> TRUE, value |-> PyNone, exc |-> db.exc]

\* One tweet of the bundle fetch_recent_tweets builds.
TweetDict(row) ==
    [tweet_id |-> row[1], body |-> row[2],
     tweet_create_time |-> StrftimeSeconds(row[3]), author_handle |-> row[4]]

\* DatabaseService.fetch_recent_tweets: None when the query gave nothing,
\* else the bundle {recent_tweet, past_tweets}.  strftime on a NULL
\* tweet_create_time raises AttributeError.
FetchRecentTweets(twitter_handle, limit, db) ==
    LET q == ExecuteQuery(db, limit)
    IN  IF q.raised THEN [raised |-> TRUE, value |-> PyNone, exc |-> q.exc]
        ELSE IF ~Truthy(q.value) \/ Len(q.value.v) = 0
        THEN [raised |-> FALSE, value |-> PyNone, exc |-> NoExc]
        ELSE IF \E i \in 1..Len(q.value.v) : q.value.v[i][3].t = "None"
        THEN [raised |-> TRUE, value |-> PyNone,
              exc |-> Exc("AttributeError",
                          <<"'NoneType' object has no attribute 'strftime'">>)]
        ELSE [raised |-> FALSE,
              value |-> [t |-> "dict",
                         v |-> [recent_tweet |-> TweetDict(q.value.v[1]),
                                past_tweets |->
                                    [i \in 1..(Len(q.value.v) - 1) |->
                                        TweetDict(q.value.v[i + 1])]]],
              exc |-> NoExc]

\* DatabaseService.fetch_limited_tokens: the rows, or [] when there are none
\* or the query failed.
FetchLimitedTokens(limit, db) ==
    LET q == ExecuteQuery(db, limit)
    IN  IF q.raised THEN [raised |-> TRUE, value |-> <<>>, exc |-> q.exc]
        ELSE [raised |-> FALSE,
              value |-> IF Truthy(q.value) THEN q.value.v ELSE <<>>,
              exc |-> NoExc]

\* --------------------------------------------- services/fetch_ohlcv.py

S_ethereum == <<"e","t","h","e","r","e","u","m">>

S_binance == <<"b","i","n","a","n","c","e">>

S_polygon == <<"p","o","l","y","g","o","n">>

S_avalanche == <<"a","v","a","l","a","n","c","h","e">>

\* fetch_ohlcv: chain.lower(), then the four network codes.
ApiChain(chain) ==
    LET c == Lower(chain)
    IN  CASE c = S_ethereum  -> <<"e","t","h">>
          [] c = S_binance   -> <<"b","s","c">>
          [] c = S_polygon   -> <<"p","o","l","y","g","o","n","_","p","o","s">>
          [] c = S_avalanche -> <<"a","v","a","x">>
          [] OTHER           -> c

\* One entry of the service's ohlcv_list: [timestamp, open, high, low, close,
\* volume], or a truncated one.
OhlcvEntries == {<<3600, 1, 3, 1, 2, 10>>, <<7200, 1>>}

RECURSIVE SeqsUpTo(_, _)
SeqsUpTo(S, n) ==
    IF n = 0 THEN {<<>>}
    ELSE LET shorter == SeqsUpTo(S, n - 1)
         IN  shorter \cup {Append(s, x) : s \in {q \in shorter : Len(q) = n - 1}, x \in S}

\* How the HTTP request can end: a payload with an ohlcv_list, a
\* RequestException, or a payload without data.attributes (KeyError).
HttpOutcomes ==
    {[kind |-> "ok", ohlcv_list |-> l] : l \in SeqsUpTo(OhlcvEntries, MaxOhlcv)}
        \cup {[kind |-> "RequestException", ohlcv_list |-> <<>>],
              [kind |-> "KeyError", ohlcv_list |-> <<>>]}

\* The request fetch_ohlcv sends.
OhlcvRequest(tweet_create_time, chain, pair_id) ==
    [network |-> ApiChain(chain), pool |-> pair_id,
     before_timestamp |-> Epoch(tweet_create_time)]

\* OHLCVService.fetch_ohlcv: the ohlcv_list, None after any exception.
FetchOhlcv(tweet_create_time, chain, pair_id, http) ==
    IF http.kind = "ok" THEN PyList(http.ohlcv_list) ELSE PyNone

\* OHLCVService.formatted_fetch_ohlcv: [time_str, close_price] for every
\* entry that is a list of at least 5 items; None when nothing was fetched or
\* nothing is left.
RECURSIVE FormatEntries(_)
FormatEntries(l) ==
    IF l = <<>> THEN <<>>
    ELSE LET entry == Head(l)
         IN  (IF Len(entry) >= 5
              THEN <<<<StrftimeMinutes(entry[1]), entry[5]>>>>
              ELSE <<>>) \o FormatEntries(Tail(l))

FormattedFetchOhlcv(tweet_create_time, chain, pair_id, http) ==
    LET ohlcv_list == FetchOhlcv(tweet_create_time, chain, pair_id, http)
    IN  IF ~Truthy(ohlcv_list) THEN PyNone
        ELSE LET formatted_ohlcv == FormatEntries(ohlcv_list.v)
             IN  IF formatted_ohlcv = <<>> THEN PyNone ELSE PyList(formatted_ohlcv)

\* -------------------------------------------------- services/gemini.py

S_buy == <<"b","u","y">>

S_skip == <<"s","k","i","p">>

S_ScoreLabel == <<"S","c","o","r","e",":"," ">>

\* The reply "Score: n".
ScoreReply(n) == S_ScoreLabel \o Digits(n)

S_free_text == <<"I"," ","t","h","i","n","k"," ","i","t","'","s"," ","g","o","o","d">>

\* Scores a reply may name.
ReplyScores == {0, 40, 59, 60, 73, 80, 100, 101}

\* What generate_content can do: answer with a text, answer with no text
\* (response.text is None), or raise.
GenOutcomes ==
    {[kind |-> "text", text |-> PyStr(r), exc |-> NoExc] :
        r \in {S_buy, S_skip, <<" ","B","U","Y","\n">>, S_free_text}
                \cup {ScoreReply(n) : n \in ReplyScores}}
        \cup {[kind |-> "text", text |-> PyNone, exc |-> NoExc],
              [kind |-> "raise", text |-> PyNone,
               exc |-> Exc("ServerError", <<"503 UNAVAILABLE">>)]}

\* The last n items of a list: ohlcv_list[-24:].
LastN(l, n) == IF Len(l) > n THEN SubSeq(l, Len(l) - n + 1, Len(l)) ELSE l

RECURSIVE PriceLines(_)
PriceLines(l) ==
    IF l = <<>> THEN <<>>
    ELSE (IF Len(Head(l)) >= 5
          THEN <<[time |-> Head(l)[1], price |-> Head(l)[5]]>>
          ELSE <<>>) \o PriceLines(Tail(l))

\* analyze_sentiment, lines 21-34 of gemini.py: the price lines of the prompt.  They are
\* built only from a dict that has the key 'data'; for anything else
\* price_context stays "".
PriceContext(ohlcv_data) ==
    IF Truthy(ohlcv_data) /\ ohlcv_data.t = "dict" /\ "data" \in DOMAIN ohlcv_data.v
    THEN LET data == ohlcv_data.v.data
             attributes == IF "attributes" \in DOMAIN data
                           THEN data.attributes ELSE [none |-> <<>>]
             ohlcv_list == IF "ohlcv_list" \in DOMAIN attributes
                           THEN attributes.ohlcv_list ELSE <<>>
         IN  PriceLines(LastN(ohlcv_list, 24))
    ELSE <<>>

\* analyze_sentiment, lines 36-62 of gemini.py: the prompt, block by block; the price block
\* is added only when price_context is not empty.
BuildPrompt(tweets_data, ohlcv_data) ==
    LET price_context == PriceContext(ohlcv_data)
    IN  <<[block |-> "context", body |-> <<>>],
          [block |-> "tweets", body |-> <<tweets_data.v>>]>>
        \o (IF price_context # <<>>
            THEN <<[block |-> "price", body |-> price_context]>>
            ELSE <<>>)
        \o <<[block |-> "task", body |-> <<>>]>>

\* analyze_sentiment, lines 70-76 of gemini.py: the reply, stripped and lower-cased, is
\* the decision when it is 'buy' or 'skip'; anything else gives None.
ParseReply(text) ==
    LET decision == Lower(Strip(text))
    IN  IF decision \in {S_buy, S_skip} THEN PyStr(decision) ELSE PyNone

\* An adapter that asks a second time when the first attempt gave no
\* decision.
GenerateContentCalls_Retry(prompt, gen) ==
    IF gen.kind = "raise" \/ gen.text.t = "None"
       \/ ParseReply(gen.text.v) = PyNone
    THEN <<[fn |-> "generate_content", args |-> prompt],
           [fn |-> "generate_content", args |-> prompt]>>
    ELSE <<[fn |-> "generate_content", args |-> prompt]>>

\* analyze_sentiment, lines 64-80 of gemini.py: the generate_content calls
\* of one analyze_sentiment call.  The call stands once in the try block,
\* outside any loop, and neither the branch for an unexpected reply nor the
\* except clause calls again.
GenerateContentCalls(prompt, gen) ==
    <<[fn |-> "generate_content", args |-> prompt]>>

\* SentimentAnalyzer.analyze_sentiment: one generate_content call; every
\* exception is logged and answered with None.
AnalyzeSentiment(tweets_data, ohlcv_data, gen) ==
    LET prompt == BuildPrompt(tweets_data, ohlcv_data)
    IN  CASE gen.kind = "raise" ->
               [value |-> PyNone, prompt |-> prompt, caught |-> gen.exc]
          [] gen.text.t = "None" ->
               [value |-> PyNone, prompt |-> prompt,
                caught |-> Exc("AttributeError",
                               <<"'NoneType' object has no attribute 'strip'">>)]
          [] OTHER ->
               [value |-> ParseReply(gen.text.v), prompt |-> prompt, caught |-> NoExc]

\* ------------------------------------------------- main.py and utils.py

VARIABLES
    impl,        \* "main": src/main.py runs; "utils": src/utils.py runs
    op,          \* the public operation that was called
    token_data,  \* the rows handed to it
    pc,          \* where the call stands
    idx,         \* analyze_multiple_tokens: the row the for loop is at
    cur,         \* analyze_token_sentiment: its arguments
    tweets_data, \* analyze_token_sentiment: the tweet bundle
    ohlcv_data,  \* analyze_token_sentiment: the price series
    reply,       \* what generate_content did for the current token
    sentiment,   \* what analyze_sentiment returned for the current token
    ret,         \* what analyze_token_sentiment returned
    calls,       \* the collaborator calls of the current analyze_token_sentiment
    results,     \* analyze_multiple_tokens: the results dict, in insertion order
    rets,        \* analyze_multiple_tokens: what each row's analysis returned
    log,         \* the records of the pipeline module's logger
    raised,      \* the exception that left the public operation, if any
    fault_at,    \* the rows whose tweet query fails with an exception that is
                 \* no MySQLError
    qpc,         \* execute_query: where the call stands
    connection,  \* execute_query: its local connection
    cursor,      \* execute_query: its local cursor
    pending,     \* execute_query: the exception or return value under way
    checked_out, \* the connections taken from the pool and not given back
    outcomes     \* how each execute_query call so far ended

\* The state of DatabaseService.execute_query and of its pool.
pool_vars == <<qpc, connection, cursor, pending, checked_out, outcomes>>

vars == <<impl, op, token_data, pc, idx, cur, tweets_data, ohlcv_data, reply,
          sentiment, ret, calls, results, rets, log, raised, fault_at, pool_vars>>

Impls == {"main", "utils"}

Ops == {"analyze_token_sentiment", "analyze_multiple_tokens"}

S_positive == <<"p","o","s","i","t","i","v","e">>

S_negative == <<"n","e","g","a","t","i","v","e">>

\* The rows fetch_limited_tokens can hand over: (token_id, pair_id, twitter,
\* chain, marketcap, volume_24hr).  twitter IS NOT NULL, but may be ''.
TokenRows ==
    {<<"T1", "P1", h, <<"E","t","h","e","r","e","u","m">>, 1, 2>> : h \in {"", "@proj"}}
        \cup {<<"T2", "P2", h, <<"s","o","l","a","n","a">>, 3, 4>> : h \in {"", "@proj"}}

\* What main() hands to analyze_multiple_tokens: the value of
\* fetch_limited_tokens(limit), for every way the query can end without
\* raising.
SelectedTokens ==
    {r.value : r \in {q \in {FetchLimitedTokens(MaxTokens, db) :
                                 db \in DbOutcomes(SeqsUpTo(TokenRows, MaxTokens))} :
                      ~q.raised}}

NoArgs == [token_id |-> "", pair_id |-> "", twitter_handle |-> "", chain |-> <<>>]

NoReply == [kind |-> "none", text |-> PyNone, exc |-> NoExc]

NoRet == [set |-> FALSE, decision |-> PyNone, reason |-> <<>>]

\* A (decision, reason) pair returned by analyze_token_sentiment.
Ret(decision, reason) == [set |-> TRUE, decision |-> decision, reason |-> reason]

Call(fn, args) == [fn |-> fn, args |-> args]

LogLine(level, event, token_id) == [level |-> level, event |-> event, token |-> token_id]

\* except Exception as e: return None, f"Error in analysis pipeline: {str(e)}"
PipelineError(exc) == Ret(PyNone, <<"Error in analysis pipeline: ">> \o exc.msg)

\* DatabaseService.__init__: the pool is full and no query is running.
PoolStart ==
    /\ qpc = "idle"
    /\ connection = "None"
    /\ cursor = "None"
    /\ pending = "none"
    /\ checked_out = 0
    /\ outcomes = <<>>

\* The state after construction: a service of one revision, and one call of
\* a public operation pending.
Init ==
    /\ impl \in Impls
    /\ op \in Ops
    /\ token_data \in IF op = "analyze_multiple_tokens"
                      THEN SelectedTokens
                      ELSE {<<row>> : row \in TokenRows}
    /\ pc = "start"
    /\ idx = 1
    /\ cur = NoArgs
    /\ tweets_data = PyUnbound
    /\ ohlcv_data = PyNone
    /\ reply = NoReply
    /\ sentiment = PyNone
    /\ ret = NoRet
    /\ calls = <<>>
    /\ results = <<>>
    /\ rets = <<>>
    /\ log = <<>>
    /\ raised = NoExc
    /\ fault_at \in SUBSET (1..Len(token_data))
    /\ PoolStart

\* A direct call analyze_token_sentiment(token_id, twitter_handle, pair_id,
\* chain).
CallAnalyzeTokenSentiment ==
    /\ pc = "start"
    /\ op = "analyze_token_sentiment"
    /\ cur' = [token_id |-> token_data[1][1], pair_id |-> token_data[1][2],
               twitter_handle |-> token_data[1][3], chain |-> token_data[1][4]]
    /\ pc' = "analyze"
    /\ UNCHANGED <<impl, op, token_data, idx, tweets_data, ohlcv_data, reply,
                   sentiment, ret, calls, results, rets, log, raised, fault_at, pool_vars>>

\* analyze_multiple_tokens(token_data): results = {}.
CallAnalyzeMultipleTokens ==
    /\ pc = "start"
    /\ op = "analyze_multiple_tokens"
    /\ results' = <<>>
    /\ rets' = <<>>
    /\ idx' = 1
    /\ pc' = "loop"
    /\ UNCHANGED <<impl, op, token_data, cur, tweets_data, ohlcv_data, reply,
                   sentiment, ret, calls, rets, log, raised, fault_at, pool_vars>>

\* The number of names the for statement of each revision unpacks a row into.
UnpackWidth(i) == IF i = "main" THEN UnpackWidthMain ELSE UnpackWidthUtils

\* The for statement's tuple unpacking, which is outside the try block.
UnpackError(i) ==
    Exc("ValueError",
        <<"too many values to unpack (expected ">> \o Digits(UnpackWidth(i)) \o <<")">>)

\* for (token_id, pair_id, twitter_handle, chain, ...) in token_data: the next
\* row is unpacked; inside the try, the progress line is logged and
\* analyze_token_sentiment is called.  A row of another width raises
\* ValueError out of analyze_multiple_tokens.
LoopNext ==
    /\ pc = "loop"
    /\ idx <= Len(token_data)
    /\ LET row == token_data[idx]
       IN  IF Len(row) # UnpackWidth(impl)
           THEN /\ raised' = UnpackError(impl)
                /\ pc' = "raised"
                /\ UNCHANGED <<cur, log>>
           ELSE /\ cur' = [token_id |-> row[1], pair_id |-> row[2],
                           twitter_handle |-> row[3], chain |-> row[4]]
                /\ log' = Append(log, LogLine("info", "analyzing", row[1]))
                /\ pc' = "analyze"
                /\ UNCHANGED raised
    /\ tweets_data' = PyUnbound
    /\ ohlcv_data' = PyNone
    /\ reply' = NoReply
    /\ sentiment' = PyNone
    /\ ret' = NoRet
    /\ calls' = <<>>
    /\ UNCHANGED <<impl, op, token_data, idx, results, rets, fault_at, pool_vars>>

\* The loop is over: return results.
BatchReturn ==
    /\ pc = "loop"
    /\ idx > Len(token_data)
    /\ pc' = "returned"
    /\ UNCHANGED <<impl, op, token_data, idx, cur, tweets_data, ohlcv_data, reply,
                   sentiment, ret, calls, results, rets, log, raised, fault_at, pool_vars>>

\* main.py lines 44-45: if not twitter_handle: return None, "No Twitter
\* handle found for token".  utils.py has no such test.
HandleCheck ==
    /\ pc = "analyze"
    /\ impl = "main"
    /\ IF cur.twitter_handle = ""
       THEN /\ ret' = Ret(PyNone, <<"No Twitter handle found for token">>)
            /\ pc' = "ret"
       ELSE /\ pc' = "tweets"
            /\ UNCHANGED ret
    /\ UNCHANGED <<impl, op, token_data, idx, cur, tweets_data, ohlcv_data, reply,
                   sentiment, calls, results, rets, log, raised, fault_at, pool_vars>>

\* A reason that leaves the handle out.
NoTweetsReason_Anonymous(twitter_handle) ==
    <<"No recent tweets found for Twitter handle: ">>

\* utils.py lines 49-52 and main.py line 50: the reason returned when
\* fetch_recent_tweets gave None, f"No recent tweets found for Twitter
\* handle: {twitter_handle}".
NoTweetsReason(twitter_handle) ==
    <<"No recent tweets found for Twitter handle: ", twitter_handle>>

\* Step 1 of both revisions: fetch_recent_tweets(twitter_handle, limit=21);
\* nothing found returns (None, "No recent tweets found for Twitter handle:
\* ..."); an exception goes to the except clause.
FetchTweets ==
    /\ \/ pc = "tweets"
       \/ pc = "analyze" /\ impl = "utils"
    /\ \E db \in DbOutcomes(TweetTables(cur.twitter_handle)) :
         /\ (db.kind = "other") <=> (idx \in fault_at)
         /\ LET r == FetchRecentTweets(cur.twitter_handle, TWEET_FETCH_LIMIT, db)
           IN  IF r.raised
               THEN /\ UNCHANGED tweets_data
                    /\ ret' = PipelineError(r.exc)
                    /\ pc' = "ret"
               ELSE /\ tweets_data' = r.value
                    /\ IF ~Truthy(r.value)
                       THEN /\ ret' = Ret(PyNone, NoTweetsReason(cur.twitter_handle))
                            /\ pc' = "ret"
                       ELSE pc' = "price" /\ UNCHANGED ret
    /\ calls' = Append(calls, Call("fetch_recent_tweets",
                                   <<cur.twitter_handle, TWEET_FETCH_LIMIT>>))
    /\ UNCHANGED <<impl, op, token_data, idx, cur, ohlcv_data, reply, sentiment,
                   results, rets, log, raised, fault_at, pool_vars>>

\* The parameters of OHLCVService.fetch_ohlcv after self.
FetchOhlcvParams == <<"tweet_create_time", "chain", "pair_id">>

\* main.py lines 53-58: self.ohlcv_service.fetch_ohlcv(chain, pair_id) passes
\* two arguments for three parameters, so the call raises TypeError before
\* the service runs; were the call to bind, recent_tweets[0] on the bundle
\* dict would raise KeyError(0).  Either way the except clause answers.
\* calls keeps the call with the arguments it was written with.
MainFetchOhlcv ==
    /\ pc = "price"
    /\ impl = "main"
    /\ LET args == <<cur.chain, cur.pair_id>>
       IN  /\ calls' = Append(calls, Call("fetch_ohlcv", args))
           /\ ret' = IF Len(args) # Len(FetchOhlcvParams)
                     THEN PipelineError(Exc("TypeError",
                              <<"OHLCVService.fetch_ohlcv() missing 1 required positional argument: 'pair_id'">>))
                     ELSE PipelineError(Exc("KeyError", <<"0">>))
    /\ pc' = "ret"
    /\ UNCHANGED <<impl, op, token_data, idx, cur, tweets_data, ohlcv_data, reply,
                   sentiment, results, rets, log, raised, fault_at, pool_vars>>

\* The test with the return left out: the series is never taken as missing.
OhlcvMissing_NeverStops(data) == FALSE

\* utils.py line 63: if not ohlcv_data.
OhlcvMissing(data) == ~Truthy(data)

\* utils.py lines 54-65: the anchor is parsed from the recent tweet's
\* tweet_create_time, formatted_fetch_ohlcv is called with it, and no data
\* returns (None, "Failed to fetch OHLCV data") after a warning.
UtilsFetchOhlcv ==
    /\ pc = "price"
    /\ impl = "utils"
    /\ \E http \in HttpOutcomes :
         LET tweet_datetime ==
                 StrptimeSeconds(tweets_data.v.recent_tweet.tweet_create_time)
             data == FormattedFetchOhlcv(tweet_datetime, cur.chain, cur.pair_id, http)
         IN  /\ ohlcv_data' = data
             /\ calls' = calls \o
                    <<Call("formatted_fetch_ohlcv",
                           <<tweet_datetime, cur.chain, cur.pair_id>>),
                      Call("requests.get",
                           <<OhlcvRequest(tweet_datetime, cur.chain, cur.pair_id)>>)>>
             /\ IF OhlcvMissing(data)
                THEN /\ log' = Append(log, LogLine("warning", "no_ohlcv", cur.token_id))
                     /\ ret' = Ret(PyNone, <<"Failed to fetch OHLCV data">>)
                     /\ pc' = "ret"
                ELSE pc' = "score" /\ UNCHANGED <<log, ret>>
    /\ UNCHANGED <<impl, op, token_data, idx, cur, tweets_data, reply, sentiment,
                   results, rets, raised, fault_at, pool_vars>>

\* utils.py lines 68-78: what is made of analyze_sentiment's return value.
\* It is unpacked into (decision, reason); no decision returns (None, reason
\* or "Sentiment analysis failed"), the decision "positive" returns
\* ("positive", reason) and any other ("negative", reason).
Classify(value) ==
    LET u == Unpack2(value)
        reason == IF u.b.t = "str" THEN u.b.v ELSE <<>>
    IN  IF ~u.ok THEN PipelineError(u.exc)
        ELSE IF ~Truthy(u.a)
        THEN Ret(PyNone, IF Truthy(u.b) THEN reason ELSE <<"Sentiment analysis failed">>)
        ELSE IF u.a = PyStr(S_positive)
        THEN Ret(PyStr(S_positive), reason)
        ELSE Ret(PyStr(S_negative), reason)

\* utils.py lines 67-78: step 4, the call of analyze_sentiment(tweets_data,
\* ohlcv_data) and the return.
UtilsScore ==
    /\ pc = "score"
    /\ \E gen \in GenOutcomes :
         LET r == AnalyzeSentiment(tweets_data, ohlcv_data, gen)
         IN  /\ reply' = gen
             /\ sentiment' = r.value
             /\ calls' = calls \o <<Call("analyze_sentiment", <<>>)>>
                                \o GenerateContentCalls(r.prompt, gen)
             /\ ret' = Classify(r.value)
    /\ pc' = "ret"
    /\ UNCHANGED <<impl, op, token_data, idx, cur, tweets_data, ohlcv_data,
                   results, rets, log, raised, fault_at, pool_vars>>

\* analyze_token_sentiment was called directly: the pair goes to the caller.
ReturnToCaller ==
    /\ pc = "ret"
    /\ op = "analyze_token_sentiment"
    /\ pc' = "returned"
    /\ UNCHANGED <<impl, op, token_data, idx, cur, tweets_data, ohlcv_data, reply,
                   sentiment, ret, calls, results, rets, log, raised, fault_at, pool_vars>>

\* results[token_id] = value on a dict kept in insertion order: a key already
\* there keeps its place and gets the new value.
DictSet(d, key, value) ==
    IF \E i \in 1..Len(d) : d[i].key = key
    THEN [i \in 1..Len(d) |-> IF d[i].key = key THEN [key |-> key, value |-> value] ELSE d[i]]
    ELSE Append(d, [key |-> key, value |-> value])

\* An outcome line that is logged at info whatever the decision.
OutcomeLevel_AlwaysInfo(decision) == "info"

\* utils.py lines 121-124 and main.py lines 97-100: if decision:
\* logger.info(...) else: logger.warning(...).
OutcomeLevel(decision) == IF Truthy(decision) THEN "info" ELSE "warning"

\* The rest of the loop body: results[token_id] = (decision, reason), then the
\* outcome line, info for a decision and warning for none.
RecordResult ==
    /\ pc = "ret"
    /\ op = "analyze_multiple_tokens"
    /\ results' = DictSet(results, cur.token_id, <<ret.decision, ret.reason>>)
    /\ rets' = Append(rets, <<ret.decision, ret.reason>>)
    /\ log' = Append(log, LogLine(OutcomeLevel(ret.decision), "outcome", cur.token_id))
    /\ idx' = idx + 1
    /\ pc' = "loop"
    /\ UNCHANGED <<impl, op, token_data, cur, tweets_data, ohlcv_data, reply,
                   sentiment, ret, calls, raised, fault_at, pool_vars>>

Next ==
    \/ CallAnalyzeTokenSentiment
    \/ CallAnalyzeMultipleTokens
    \/ LoopNext
    \/ BatchReturn
    \/ HandleCheck
    \/ FetchTweets
    \/ MainFetchOhlcv
    \/ UtilsFetchOhlcv
    \/ UtilsScore
    \/ ReturnToCaller
    \/ RecordResult

Spec == Init /\ [][Next]_vars

\* ------------------------------------- database.py: execute_query, by step

\* The state of the pipeline, which a query leaves alone.
pipeline_vars == <<impl, op, token_data, pc, idx, cur, tweets_data, ohlcv_data,
                   reply, sentiment, ret, calls, results, rets, log, raised,
                   fault_at>>

\* How a call on the connector can end: normally, with a MySQLError, or with
\* another exception.
StepOutcomes == {"ok", "MySQLError", "other"}

\* A finally block that closes nothing.
FinallyClose_Skip(resource) == resource

\* execute_query lines 49-53: if cursor: cursor.close() and if connection:
\* connection.close().  None is skipped; close() on a pooled connection
\* gives it back to the pool.
FinallyClose(resource) == IF resource = "open" THEN "closed" ELSE resource

\* execute_query lines 38-40: connection = None, cursor = None, try.
QCall ==
    /\ qpc = "idle"
    /\ Len(outcomes) < MaxQueries
    /\ connection' = "None"
    /\ cursor' = "None"
    /\ pending' = "none"
    /\ qpc' = "get_connection"
    /\ UNCHANGED <<checked_out, outcomes, pipeline_vars>>

\* Line 41 and get_connection, lines 30-35: self.pool.get_connection().  An
\* empty pool raises PoolError, a MySQLError; any error is raised again.
QGetConnection ==
    /\ qpc = "get_connection"
    /\ \E o \in StepOutcomes :
         IF checked_out >= POOL_SIZE
         THEN /\ pending' = "MySQLError"
              /\ qpc' = "except"
              /\ UNCHANGED <<connection, checked_out>>
         ELSE IF o = "ok"
         THEN /\ connection' = "open"
              /\ checked_out' = checked_out + 1
              /\ qpc' = "cursor"
              /\ UNCHANGED pending
         ELSE /\ pending' = o
              /\ qpc' = "except"
              /\ UNCHANGED <<connection, checked_out>>
    /\ UNCHANGED <<cursor, outcomes, pipeline_vars>>

\* Line 42: cursor = connection.cursor().
QCursor ==
    /\ qpc = "cursor"
    /\ \E o \in StepOutcomes :
         IF o = "ok"
         THEN cursor' = "open" /\ qpc' = "execute" /\ UNCHANGED pending
         ELSE pending' = o /\ qpc' = "except" /\ UNCHANGED cursor
    /\ UNCHANGED <<connection, checked_out, outcomes, pipeline_vars>>

\* Line 43: cursor.execute(query, params or ()).
QExecute ==
    /\ qpc = "execute"
    /\ \E o \in StepOutcomes :
         IF o = "ok"
         THEN qpc' = "fetchall" /\ UNCHANGED pending
         ELSE pending' = o /\ qpc' = "except"
    /\ UNCHANGED <<connection, cursor, checked_out, outcomes, pipeline_vars>>

\* Lines 44-45: result = cursor.fetchall(); return result.
QFetchall ==
    /\ qpc = "fetchall"
    /\ \E o \in StepOutcomes :
         IF o = "ok"
         THEN pending' = "rows" /\ qpc' = "finally"
         ELSE pending' = o /\ qpc' = "except"
    /\ UNCHANGED <<connection, cursor, checked_out, outcomes, pipeline_vars>>

\* Lines 46-48: except MySQLError logs and returns None; any other exception
\* stays under way.
QExcept ==
    /\ qpc = "except"
    /\ pending' = IF pending = "MySQLError" THEN "None" ELSE "raise"
    /\ qpc' = "finally"
    /\ UNCHANGED <<connection, cursor, checked_out, outcomes, pipeline_vars>>

\* Lines 49-53: the finally block, then the call ends with the rows, with
\* None or with the exception.
QFinally ==
    /\ qpc = "finally"
    /\ cursor' = FinallyClose(cursor)
    /\ connection' = FinallyClose(connection)
    /\ checked_out' = IF connection = "open" /\ connection' = "closed"
                      THEN checked_out - 1 ELSE checked_out
    /\ outcomes' = Append(outcomes, pending)
    /\ qpc' = "idle"
    /\ UNCHANGED <<pending, pipeline_vars>>

\* A service that has been constructed and runs queries only.
PoolInit ==
    /\ Init
    /\ impl = "utils"
    /\ op = "analyze_multiple_tokens"
    /\ token_data = <<>>

PoolNext ==
    \/ QCall
    \/ QGetConnection
    \/ QCursor
    \/ QExecute
    \/ QFetchall
    \/ QExcept
    \/ QFinally

PoolSpec == PoolInit /\ [][PoolNext]_vars

\* ---------------------------------------------------------- the properties

\* cur, calls and ret belong to a run of analyze_token_sentiment that has
\* started.
InRun ==
    \/ pc \in {"analyze", "tweets", "price", "score", "ret"}
    \/ pc = "returned" /\ op = "analyze_token_sentiment"

\* The current run has called the collaborator fn.
Called(fn) == \E i \in 1..Len(calls) : calls[i].fn = fn

\* The three verdicts: 'positive', 'negative', None.
Verdicts == {PyStr(S_positive), PyStr(S_negative), PyNone}

\* The token ids of the batch, row by row.
TokenIds == [i \in 1..Len(token_data) |-> token_data[i][1]]

DistinctIds == \A i, j \in 1..Len(token_data) : TokenIds[i] = TokenIds[j] => i = j

\* C1: neither public operation raises: analyze_token_sentiment returns a
\* (verdict, reason) pair with the verdict positive, negative or None, and
\* analyze_multiple_tokens, given rows of fetch_limited_tokens (6 columns),
\* returns its mapping; no exception leaves either.
C1_NeverRaises ==
    /\ raised = NoExc
    /\ pc # "raised"
    /\ (pc = "returned" /\ op = "analyze_token_sentiment")
          => ret.set /\ ret.decision \in Verdicts

\* The reasons that speak of the handle.
HandleReasons == {"No Twitter handle found for token",
                  "No recent tweets found for Twitter handle: "}

\* C2: a run for a token whose handle is empty calls neither the tweet fetch
\* nor the price fetch, and returns None with a reason about the handle.
C2_EmptyHandleNoFetch ==
    (InRun /\ cur.twitter_handle = "")
        => /\ ~Called("fetch_recent_tweets")
           /\ ~Called("formatted_fetch_ohlcv")
           /\ ~Called("requests.get")
           /\ ret.set => /\ ret.decision = PyNone
                         /\ ret.reason[1] \in HandleReasons

\* The number of rows the bundle of the current run was built from.
BundleRows == 1 + Len(tweets_data.v.past_tweets)

\* C3: a tweet query that returns fewer than 5 rows builds no bundle, and the
\* run returns None without the price fetch or the scoring call.
C3_FewerThanFiveNoBundle ==
    (InRun /\ cur.twitter_handle # "" /\ tweets_data.t = "dict")
        => BundleRows >= 5

\* The price fetch of the current run was made and gave no usable series.
NoPriceSeries ==
    /\ InRun
    /\ tweets_data.t = "dict"
    /\ Called("formatted_fetch_ohlcv")
    /\ ~Truthy(ohlcv_data)

RepliedScore(n) == reply.kind = "text" /\ reply.text = PyStr(ScoreReply(n))

\* C5: the verdict follows the threshold 60 on the score: positive iff
\* s >= 60, negative iff 0 <= s < 60, and a value outside 0..100 is neither.
C5_Threshold ==
    \A s \in ReplyScores :
        (InRun /\ ret.set /\ RepliedScore(s) /\ cur.twitter_handle # "" /\ BundleRows >= 5)
            => ret.decision = (IF s > 100 THEN PyNone
                               ELSE IF s >= RESPONSE_THRESHOLD THEN PyStr(S_positive)
                               ELSE PyStr(S_negative))

\* C6: with a handle, a bundle, a price series and a reply "Score: N" with N
\* in 0..100, the run returns a verdict that is not None with the reason
\* "Score: N".
C6_EndToEnd ==
    \A n \in {s \in ReplyScores : s <= 100} :
        (/\ InRun /\ ret.set
         /\ cur.twitter_handle # ""
         /\ tweets_data.t = "dict"
         /\ BundleRows >= 5
         /\ Truthy(ohlcv_data)
         /\ RepliedScore(n))
            => /\ ret.decision # PyNone
               /\ ret.reason = ScoreReply(n)

\* The pair (decision, reason) the pipeline unpacks from the adapter.
AdapterPair(decision, reason) == [t |-> "tuple", v |-> <<decision, PyStr(reason)>>]

\* C7: the adapter parses "Score: n": n in 0..100 gives the score n, n > 100
\* the failure "Score out of range: n", a reply without a score the failure
\* "Unexpected model response: <reply>".
C7_ParseContract ==
    (pc = "ret" /\ reply.kind = "text" /\ reply.text.t = "str")
        => /\ \A n \in ReplyScores :
                RepliedScore(n)
                    => /\ sentiment.t = "tuple"
                       /\ IF n <= 100
                          THEN /\ sentiment.v[1] # PyNone
                               /\ sentiment.v[2] = PyStr(ScoreReply(n))
                          ELSE sentiment = AdapterPair(PyNone,
                                   <<"Score out of range: ">> \o Digits(n))
           /\ reply.text.v = S_free_text
                => sentiment = AdapterPair(PyNone,
                       <<"Unexpected model response: ">> \o S_free_text)

\* The batch call is over, by a return or by an exception.
BatchOver == op = "analyze_multiple_tokens" /\ pc \in {"returned", "raised"}

\* C8: a batch of n tokens with distinct ids, the tweet fetch of one of them
\* raising: the call returns n entries, one per token in order, the faulting
\* token's entry is None, and every other entry is what that token's own
\* analysis returned.
C8_BatchIsolation ==
    (BatchOver /\ DistinctIds /\ Cardinality(fault_at) = 1)
        => /\ pc = "returned"
           /\ Len(results) = Len(token_data)
           /\ \A i \in 1..Len(token_data) :
                /\ results[i].key = TokenIds[i]
                /\ results[i].value = rets[i]
                /\ i \in fault_at => results[i].value[1] = PyNone

\* C9: the mapping holds one entry per processed token, in processing order,
\* and no entry is overwritten, duplicate token ids included.
C9_OneEntryPerToken ==
    (impl = "utils" /\ op = "analyze_multiple_tokens" /\ pc \in {"loop", "returned"})
        => /\ Len(results) = idx - 1
           /\ \A i \in 1..Len(results) :
                results[i] = [key |-> TokenIds[i], value |-> rets[i]]

\* C10: an exception raised by the generation call comes back from the
\* adapter as a failure whose reason is the exception's text.
C10_AdapterCarriesException ==
    (pc = "ret" /\ reply.kind = "raise")
        => /\ sentiment.t = "tuple"
           /\ sentiment = AdapterPair(PyNone, reply.exc.msg)

\* The run's tweet fetch came back with None.
NoTweets == Called("fetch_recent_tweets") /\ tweets_data = PyNone

\* C11: when fetch_recent_tweets returns None for a non-empty handle, the
\* run returns (None, "No recent tweets found for Twitter handle: <handle>"),
\* the reason naming that handle.
C11_NoTweetsNamesHandle ==
    (InRun /\ cur.twitter_handle # "" /\ NoTweets)
        => /\ pc \in {"ret", "returned"}
           /\ ret = Ret(PyNone, <<"No recent tweets found for Twitter handle: ",
                                  cur.twitter_handle>>)

\* A run of each revision for the handle "@proj" whose tweet fetch gave None.
C11_Witness ==
    /\ pc = "ret"
    /\ cur.twitter_handle = "@proj"
    /\ NoTweets
    /\ ret.reason[2] = "@proj"

\* How many times the current run has called the collaborator fn.
CallCount(fn) == Cardinality({i \in 1..Len(calls) : calls[i].fn = fn})

\* C12: a run calls generate_content at most once, and exactly once when it
\* reaches scoring, whatever the reply was: no second attempt after a
\* malformed reply, an out-of-range score or an exception.
C12_SingleGeneration ==
    /\ CallCount("generate_content") <= 1
    /\ CallCount("analyze_sentiment") <= 1
    /\ CallCount("generate_content") = CallCount("analyze_sentiment")
    /\ (InRun /\ reply # NoReply) => CallCount("generate_content") = 1

\* A run whose only generation call raised, and one whose reply was an
\* out-of-range score.
C12_Witness ==
    /\ pc = "ret"
    /\ \/ reply.kind = "raise"
       \/ reply.kind = "text" /\ reply.text = PyStr(ScoreReply(101))
    /\ CallCount("generate_content") = 1

\* The calls by which a run asks for the price series.
PriceFetchFns == {"fetch_ohlcv", "formatted_fetch_ohlcv"}

\* The positions in calls of the calls of one of the functions fns.
CallsAt(fns) == {i \in 1..Len(calls) : calls[i].fn \in fns}

\* The creation time of the bundle's most recent tweet, as a datetime.
BundleAnchor == StrptimeSeconds(tweets_data.v.recent_tweet.tweet_create_time)

\* C13: within a run the tweet fetch comes before the price fetch and the
\* price fetch before scoring, and every price fetch is asked for (anchor,
\* chain, pair id), the anchor being the creation time of the most recent
\* tweet of the bundle fetched in the same run.
C13_OrderAndAnchor ==
    InRun =>
        /\ \A i \in CallsAt(PriceFetchFns) :
             /\ \E j \in CallsAt({"fetch_recent_tweets"}) : j < i
             /\ tweets_data.t = "dict"
             /\ calls[i].args = <<BundleAnchor, cur.chain, cur.pair_id>>
        /\ \A i \in CallsAt({"analyze_sentiment"}) :
             \E j \in CallsAt(PriceFetchFns) : j < i

\* The price-data blocks of a prompt.
PriceBlocks(prompt) == {k \in 1..Len(prompt) : prompt[k].block = "price"}

\* C14: the prompt handed to generate_content has the price-data block
\* exactly when the price series handed to the adapter is not empty, and the
\* block then lists the (timestamp, price) pairs of the series.
C14_PriceBlockIffSeries ==
    \A i \in CallsAt({"generate_content"}) :
        LET prompt == calls[i].args
        IN  /\ (PriceBlocks(prompt) # {}) <=> Truthy(ohlcv_data)
            /\ \A k \in PriceBlocks(prompt) :
                 Len(prompt[k].body) = Len(LastN(ohlcv_data.v, 24))

\* The progress and outcome lines of the batch, in the order logged.
BatchLines == SelectSeq(log, LAMBDA l : l.event \in {"analyzing", "outcome"})

\* How many tokens of the batch have had their analysis started.
Started ==
    Len(rets) + (IF op = "analyze_multiple_tokens" /\ InRun THEN 1 ELSE 0)

\* C15: every token of the batch gets one progress line before its analysis
\* starts and one outcome line after it ends and before the next token's
\* progress line; the outcome line is at info when the decision is positive
\* or negative and at warning when it is None.
C15_ProgressThenOutcome ==
    /\ Len(BatchLines) = Started + Len(rets)
    /\ \A i \in 1..Started :
         BatchLines[2 * i - 1] = LogLine("info", "analyzing", TokenIds[i])
    /\ \A i \in 1..Len(rets) :
         BatchLines[2 * i] =
             LogLine(IF rets[i][1] \in {PyStr(S_positive), PyStr(S_negative)}
                     THEN "info" ELSE "warning",
                     "outcome", TokenIds[i])

\* A batch of two tokens that is over, with a price-fetch warning logged
\* between a progress line and its outcome line.
C15_Witness ==
    /\ pc = "returned"
    /\ op = "analyze_multiple_tokens"
    /\ Len(rets) = 2
    /\ Len(BatchLines) = 4
    /\ Len(log) > 4
    /\ BatchLines[4].level = "warning"

\* C16: between execute_query calls no connection is checked out of the
\* pool and the connection and cursor of the last call are closed, whether
\* the calls returned rows, returned None after a MySQLError or raised.
C16_NoLeak ==
    qpc = "idle" =>
        /\ checked_out = 0
        /\ connection # "open"
        /\ cursor # "open"

\* Three calls are over: one returned rows, one returned None and one
\* raised after it had a connection and a cursor.
C16_Witness ==
    /\ qpc = "idle"
    /\ outcomes = <<"rows", "None", "raise">>
    /\ connection = "closed"
    /\ cursor = "closed"
    /\ checked_out = 0

====
